---- MODULE Spec2Model ----
(***************************************************************************)
(* Umi-OCR: the logging module (py_src/imports/umi_log.py) and the plain   *)
(* text output writer (pyapp/ocr/output/output_txt.py).                    *)
(*                                                                         *)
(* Python text is a sequence of tokens (short TLA+ strings), so that       *)
(* %-formatting, basename and line splitting are computed, not assumed.   *)
(* Characters outside ASCII are written by their code points ("U+221A").   *)
(***************************************************************************)
EXTENDS Integers, Sequences, FiniteSets, TLC

VARIABLES
    filters,        \* number of _CoverFilter objects on logger "Umi-OCR"
    handlers,       \* handlers of logger "Umi-OCR", in order: "console" | "json"
    jsonFile,       \* ./logs/<date>.jsonl.txt: the pieces written, in order
    backups,        \* rotated generations <date>.jsonl.txt.1 .. .n
    stderr,         \* lines the console handlers wrote
    handleErrors,   \* calls of Handler.handleError
    opens,          \* open(baseFilename, "a") calls of the JSON handlers
    calls,          \* the logger emit operations invoked so far
    filtered,       \* per call: the record as Logger.filter left it, and its verdict
    qtCalls,        \* invocations of the Qt message callback
    created,        \* create_logger("Umi-OCR") calls so far
    pc,             \* per thread: position inside Logger.handle / emit
    lockOwner,      \* holder of the JSON handler's I/O lock (0: free)
    sent,           \* per thread: records handed to the logger so far
    outFile,        \* OutputTxt: content of <dir>/<fileName>.txt
    ingoreBlank,    \* OutputTxt.ingoreBlank
    printed         \* OutputTxt: results passed to print so far

logVars == <<filters, handlers, jsonFile, backups, stderr, handleErrors, opens,
             calls, filtered, qtCalls, created>>
thrVars == <<pc, lockOwner, sent>>
txtVars == <<outFile, ingoreBlank, printed>>
vars == <<logVars, thrVars, txtVars>>

(***************************************************************************)
(* Bounds of the model.                                                    *)
(***************************************************************************)
MaxEmits == 2       \* top-level logging operations in one behaviour
MaxCreates == 2     \* create_logger calls after the module-level one
NThreads == 2       \* concurrently logging threads
MRecords == 2       \* records each thread emits
MaxPrints == 3      \* OutputTxt.print calls

(***************************************************************************)
(* Python values.                                                          *)
(***************************************************************************)
PyStr(toks) == [t |-> "str", s |-> toks]
PyInt(n) == [t |-> "int", n |-> n]
PyNone == [t |-> "none"]
PyObj == [t |-> "object"]                    \* an arbitrary object()
PyTuple(xs) == [t |-> "tuple", items |-> xs]
PyDict(kvs) == [t |-> "dict", items |-> kvs] \* items in insertion order
ExcInfo == [t |-> "excinfo"]                 \* sys.exc_info() in an except block

SUR == "\\udc80"     \* a lone surrogate: not encodable as UTF-8
BIG == "<6MiB>"      \* a run of 6 MiB of ASCII text

RECURSIVE Flatten(_)
Flatten(toks) == IF toks = <<>> THEN "" ELSE Head(toks) \o Flatten(Tail(toks))

\* str(v)
PyToStr(v) ==
    CASE v.t = "str" -> v.s
      [] v.t = "int" -> <<ToString(v.n)>>
      [] v.t = "none" -> <<"None">>
      [] OTHER -> <<"<" \o v.t \o ">">>

\* bool(v)
Truthy(v) ==
    CASE v.t = "str" -> Flatten(v.s) # ""
      [] v.t = "int" -> v.n # 0
      [] v.t = "none" -> FALSE
      [] v.t = "tuple" -> v.items # <<>>
      [] v.t = "dict" -> v.items # <<>>
      [] OTHER -> TRUE

(***************************************************************************)
(* msg % args, as LogRecord.getMessage applies it.                         *)
(***************************************************************************)
RECURSIVE Percent(_, _)
Percent(toks, args) ==
    IF toks = <<>>
    THEN IF args = <<>> THEN [ok |-> TRUE, s |-> <<>>]
         ELSE [ok |-> FALSE, s |-> <<>>]     \* not all arguments converted
    ELSE LET tk == Head(toks) IN
         IF tk \in {"%s", "%d"}
         THEN IF args = <<>> THEN [ok |-> FALSE, s |-> <<>>]   \* not enough arguments
              ELSE IF tk = "%d" /\ Head(args).t # "int"
                   THEN [ok |-> FALSE, s |-> <<>>]           \* %d format: a number is required
                   ELSE LET rest == Percent(Tail(toks), Tail(args)) IN
                        [ok |-> rest.ok, s |-> PyToStr(Head(args)) \o rest.s]
         ELSE LET rest == Percent(Tail(toks), args) IN
              [ok |-> rest.ok, s |-> <<tk>> \o rest.s]

\* LogRecord.getMessage(): msg = str(self.msg); if self.args: msg = msg % self.args
getMessage(rec) ==
    LET msg == PyToStr(rec["msg"])
        a == rec["args"]
    IN  IF ~Truthy(a) THEN [ok |-> TRUE, s |-> msg]
        ELSE Percent(msg, IF a.t = "tuple" THEN a.items ELSE <<a>>)

(***************************************************************************)
(* The logger front end: level methods, makeRecord.                        *)
(***************************************************************************)
LevelMethods == {"debug", "info", "warning", "error", "critical"}

\* logger.debug / info / warning / error / critical log at these levels
LevelNo(method) ==
    CASE method = "debug" -> 10
      [] method = "info" -> 20
      [] method = "warning" -> 30
      [] method = "error" -> 40
      [] method = "critical" -> 50

\* logging.getLevelName
getLevelName(levelno) ==
    CASE levelno = 10 -> "DEBUG"
      [] levelno = 20 -> "INFO"
      [] levelno = 30 -> "WARNING"
      [] levelno = 40 -> "ERROR"
      [] levelno = 50 -> "CRITICAL"
      [] OTHER -> "Level " \o ToString(levelno)

\* Where findCaller places a call made from application code, from
\* _CoverFilter.filter's except branch, and from qt_message_handler.
CallSite(at) ==
    CASE at = "filter" -> [filename |-> "umi_log.py", module |-> "umi_log",
                           funcName |-> "filter", lineno |-> 49]
      [] at = "qt" -> [filename |-> "umi_log.py", module |-> "umi_log",
                       funcName |-> "qt_message_handler", lineno |-> 207]
      [] OTHER -> [filename |-> "app.py", module |-> "app",
                   funcName |-> "run", lineno |-> 8]

NoExtra == [has |-> FALSE]
Extra(cover) == [has |-> TRUE, cover |-> cover]

\* One call of a level method: logger.<method>(msg, *args, exc_info=, stack_info=, extra=)
Call(method, msg, args, extra, tb, at) ==
    [method |-> method, msg |-> msg, args |-> args, extra |-> extra,
     exc_info |-> tb, stack_info |-> tb, at |-> at]

\* Logger.makeRecord: the LogRecord's attributes, then extra's keys
makeRecord(c) ==
    LET site == CallSite(c.at)
        base == [name |-> PyStr(<<"Umi-OCR">>),
                 msg |-> PyStr(c.msg),
                 args |-> PyTuple(c.args),
                 levelno |-> PyInt(LevelNo(c.method)),
                 levelname |-> PyStr(<<getLevelName(LevelNo(c.method))>>),
                 filename |-> PyStr(<<site.filename>>),
                 module |-> PyStr(<<site.module>>),
                 funcName |-> PyStr(<<site.funcName>>),
                 lineno |-> PyInt(site.lineno),
                 exc_info |-> IF c.exc_info THEN ExcInfo ELSE PyNone,
                 exc_text |-> PyNone,
                 stack_info |-> IF c.stack_info THEN PyStr(<<"Stack">>) ELSE PyNone,
                 __class__ |-> [t |-> "class"]]
    IN  IF c.extra.has THEN base @@ ("cover" :> c.extra.cover) ELSE base

(***************************************************************************)
(* _CoverFilter.filter                                                     *)
(***************************************************************************)
\* Mutant of hasattr: the key is not looked up, every key is assigned
hasattr_Always(rec, k) == TRUE

\* hasattr(record, k): the name must be a str (TypeError otherwise)
hasattr(rec, k) == Flatten(k.s) \in DOMAIN rec

\* setattr(record, k, v) raises for __class__ unless v is a class
SetattrRaises(k, v) == Flatten(k.s) = "__class__" /\ v.t # "class"

setattr(rec, k, v) ==
    [a \in DOMAIN rec \cup {Flatten(k.s)} |-> IF a = Flatten(k.s) THEN v ELSE rec[a]]

\* for k, v in cover.items(): if hasattr(record, k): setattr(record, k, v)
RECURSIVE CoverLoop(_, _)
CoverLoop(rec, items) ==
    IF items = <<>> THEN [raised |-> FALSE, rec |-> rec]
    ELSE LET k == Head(items)[1]
             v == Head(items)[2]
         IN  IF k.t # "str" THEN [raised |-> TRUE, rec |-> rec]
             ELSE IF ~hasattr(rec, k) THEN CoverLoop(rec, Tail(items))
             ELSE IF SetattrRaises(k, v) THEN [raised |-> TRUE, rec |-> rec]
             ELSE CoverLoop(setattr(rec, k, v), Tail(items))

\* The try block of filter: cover = record.__dict__.get("cover", {}), the loop,
\* return True.  raised: the except branch is taken (error logged, return False).
CoverFilter_filter(rec) ==
    LET cover == IF "cover" \in DOMAIN rec THEN rec["cover"] ELSE PyDict(<<>>)
    IN  IF cover.t # "dict" THEN [raised |-> TRUE, rec |-> rec]   \* no .items()
        ELSE CoverLoop(rec, cover.items)

\* Filterer.filter: the logger's filters in order, stopping at the first False
RECURSIVE Filterer_filter(_, _)
Filterer_filter(rec, n) ==
    IF n = 0 THEN [raised |-> FALSE, rec |-> rec]
    ELSE LET r == CoverFilter_filter(rec) IN
         IF r.raised THEN r ELSE Filterer_filter(r.rec, n - 1)

\* Mutant of FilterErrorCall: the report carries no exception and no stack
FilterErrorCall_Plain ==
    Call("error", <<"log filter error">>, <<>>, NoExtra, FALSE, "filter")

\* logger.error("...", exc_info=True, stack_info=True) in the except branch
FilterErrorCall == Call("error", <<"log filter error">>, <<>>, NoExtra, TRUE, "filter")

(***************************************************************************)
(* Console handler: StreamHandler(sys.stderr) with _LevelFormatter.        *)
(***************************************************************************)
LEVEL_SYMBOLS(levelname) ==
    CASE levelname = "DEBUG" -> "U+221A"
      [] levelname = "INFO" -> "i"
      [] levelname = "WARNING" -> "?"
      [] levelname = "ERROR" -> "U+00D7"
      [] levelname = "CRITICAL" -> "!"
      [] OTHER -> levelname

\* Handler.handleError(record) of handler number h for call number i
handleError(L, h, i) == [L EXCEPT !.herrs = Append(@, [handler |-> h, call |-> i])]

\* _LevelFormatter.format: "%(asctime)s %(levelsymbol)s %(funcName)s | %(message)s",
\* then the exception text and the stack; Formatter.format caches record.exc_text.
LevelFormatter_format(rec) ==
    LET gm == getMessage(rec) IN
    [ok |-> gm.ok,
     line |-> [symbol |-> LEVEL_SYMBOLS(Flatten(PyToStr(rec["levelname"]))),
               funcName |-> Flatten(PyToStr(rec["funcName"])),
               message |-> gm.s,
               exc |-> rec["exc_info"].t # "none",
               stack |-> rec["stack_info"].t # "none"],
     rec |-> IF gm.ok /\ rec["exc_info"].t # "none" /\ ~Truthy(rec["exc_text"])
             THEN [rec EXCEPT !["exc_text"] = PyStr(<<"Traceback">>)]
             ELSE rec]

\* StreamHandler.emit: format and write one line, handleError on any exception
Console_emit(L, rec, h, i) ==
    LET f == LevelFormatter_format(rec) IN
    IF f.ok
    THEN [L |-> [L EXCEPT !.err = Append(@, [call |-> i] @@ f.line)], rec |-> f.rec]
    ELSE [L |-> handleError(L, h, i), rec |-> f.rec]

(***************************************************************************)
(* JSON file handler: _JsonRotatingFileHandler.                            *)
(***************************************************************************)
maxBytes == 10485760
backupCount == 3

\* _record_to_dict: the dictionary's items in the order of the source.  The
\* time, thread and process items do not depend on the call and are left out.
record_to_dict(rec) ==
    LET gm == getMessage(rec) IN
    [ok |-> gm.ok,
     items |-> << <<"level", rec["levelname"]>>,
                  <<"message", PyStr(gm.s)>>,
                  <<"filename", rec["filename"]>>,
                  <<"lineno", rec["lineno"]>>,
                  <<"module", rec["module"]>>,
                  <<"funcName", rec["funcName"]>>,
                  <<"exc_text", rec["exc_text"]>>,
                  <<"stack_info", rec["stack_info"]>>,
                  <<"name", rec["name"]>> >>]

\* Whether json.dump(..., ensure_ascii=False) into a UTF-8 text file can write v
Dumpable(v) ==
    CASE v.t = "str" -> \A k \in 1..Len(v.s) : v.s[k] # SUR
      [] v.t = "int" -> TRUE
      [] v.t = "none" -> TRUE
      [] OTHER -> FALSE

\* The JSON text of a value json.dump can write
JsonValue(v) ==
    CASE v.t = "str" -> [j |-> "string", s |-> v.s]
      [] v.t = "int" -> [j |-> "number", n |-> v.n]
      [] OTHER -> [j |-> "null"]

JsonItems(items) == [k \in 1..Len(items) |-> <<items[k][1], JsonValue(items[k][2])>>]

\* Index of the first item json.dump cannot write, 0 when there is none
FirstBad(items) ==
    IF \A k \in 1..Len(items) : Dumpable(items[k][2]) THEN 0
    ELSE CHOOSE k \in 1..Len(items) :
            /\ ~Dumpable(items[k][2])
            /\ \A m \in 1..(k - 1) : Dumpable(items[m][2])

\* What "with open(...) as f: json.dump(log_dict, f); f.write(NL)" leaves in the
\* file.  json.dump writes chunk by chunk: when item number bad cannot be
\* written, the chunks before it ("{", the earlier items, the key) are already
\* in f and are flushed when the with block closes f; the newline is not written.
DumpPieces(items, i) ==
    LET bad == FirstBad(items) IN
    IF bad = 0
    THEN << [p |-> "object", call |-> i, items |-> JsonItems(items)], [p |-> "nl"] >>
    ELSE << [p |-> "partial", call |-> i,
             items |-> JsonItems(SubSeq(items, 1, bad - 1)), key |-> items[bad][1]] >>

\* _JsonRotatingFileHandler.emit.  The first except does not return: a failed
\* conversion goes on to the second try, where log_dict is unbound, so the file
\* is opened, nothing is written and handleError runs a second time.
Json_emit(L, rec, h, i) ==
    LET conv == record_to_dict(rec)
        L1 == IF conv.ok THEN L ELSE handleError(L, h, i)
        L2 == [L1 EXCEPT !.opens = Append(@, i)]
    IN  IF ~conv.ok THEN handleError(L2, h, i)
        ELSE LET L3 == [L2 EXCEPT !.file = @ \o DumpPieces(conv.items, i)] IN
             IF FirstBad(conv.items) = 0 THEN L3 ELSE handleError(L3, h, i)

(***************************************************************************)
(* Logger.handle: filters, then every handler in order.                    *)
(***************************************************************************)
\* Logger.callHandlers: handler h, then the ones after it.  A handler sees the
\* record as the handlers before it left it.
RECURSIVE callHandlers(_, _, _, _, _)
callHandlers(L, rec, hs, h, i) ==
    IF h > Len(hs) THEN L
    ELSE IF hs[h] = "console"
         THEN LET r == Console_emit(L, rec, h, i) IN callHandlers(r.L, r.rec, hs, h + 1, i)
         ELSE callHandlers(Json_emit(L, rec, h, i), rec, hs, h + 1, i)

\* One call of logger.debug/info/warning/error/critical.  When a filter takes
\* its except branch it logs FilterErrorCall through the same logger and
\* returns False: the record reaches no handler.
RECURSIVE Logger_log(_, _, _, _)
Logger_log(L, c, nf, hs) ==
    LET i == Len(L.calls) + 1
        fr == Filterer_filter(makeRecord(c), nf)
        L1 == [L EXCEPT !.calls = Append(@, c),
                        !.filtered = Append(@, [pass |-> ~fr.raised, rec |-> fr.rec])]
    IN  IF fr.raised THEN Logger_log(L1, FilterErrorCall, nf, hs)
        ELSE callHandlers(L1, fr.rec, hs, 1, i)

\* The log state the operators above work on
LogState == [file |-> jsonFile, err |-> stderr, herrs |-> handleErrors,
             opens |-> opens, calls |-> calls, filtered |-> filtered]

\* The variables after the log state became L
Commit(L) ==
    /\ jsonFile' = L.file
    /\ stderr' = L.err
    /\ handleErrors' = L.herrs
    /\ opens' = L.opens
    /\ calls' = L.calls
    /\ filtered' = L.filtered

(***************************************************************************)
(* _LogManager.create_logger and the module-level singleton.               *)
(***************************************************************************)
\* logging.getLogger(name) returns the one logger of that name; addFilter and
\* addHandler append the freshly built objects to its lists.
create_logger(fs, hs) ==
    [filters |-> fs + 1, handlers |-> hs \o <<"console", "json">>]

\* Calls that are not the filter's own error report
TopCalls(cs) == Cardinality({k \in 1..Len(cs) : cs[k].at # "filter"})

(***************************************************************************)
(* get_qt_message_handler: the callback it returns.                        *)
(***************************************************************************)
QtMsgTypes == {"QtDebugMsg", "QtInfoMsg", "QtWarningMsg", "QtCriticalMsg", "QtFatalMsg"}

\* getattr(context, name, default)
GetAttr(ctx, name, default) == IF name \in DOMAIN ctx THEN ctx[name] ELSE default

\* os.path.basename of a path whose separators are "/" tokens
RECURSIVE basename(_)
basename(toks) ==
    IF \A k \in 1..Len(toks) : toks[k] # "/" THEN toks ELSE basename(Tail(toks))

\* The extra dictionary the callback builds
QtExtra(ctx) ==
    LET filepath == GetAttr(ctx, "file", PyStr(<<"?">>))
        filename == PyStr(basename(filepath.s))
        fn == GetAttr(ctx, "function", PyStr(<<"?">>))
        funcName == IF ~Truthy(fn) THEN PyStr(<<"()=>{}">>) ELSE fn
    IN  Extra(PyDict(<< <<PyStr(<<"category">>), GetAttr(ctx, "category", PyStr(<<"?">>))>>,
                        <<PyStr(<<"filename">>), filename>>,
                        <<PyStr(<<"funcName">>), funcName>>,
                        <<PyStr(<<"lineno">>), GetAttr(ctx, "line", PyStr(<<"?">>))>>,
                        <<PyStr(<<"version">>), GetAttr(ctx, "version", PyStr(<<"?">>))>>,
                        <<PyStr(<<"module">>), PyStr(<<"qml">>)>> >>))

\* Mutant of QtMethod: Qt's "critical" taken for the logger's "critical"
QtMethod_SameName(mode) ==
    CASE mode = "QtDebugMsg" -> "debug"
      [] mode = "QtInfoMsg" -> "info"
      [] mode = "QtWarningMsg" -> "warning"
      [] mode = "QtCriticalMsg" -> "critical"
      [] mode = "QtFatalMsg" -> "critical"

\* The if/elif chain: the logger method called for a Qt message type
QtMethod(mode) ==
    CASE mode = "QtDebugMsg" -> "debug"
      [] mode = "QtInfoMsg" -> "info"
      [] mode = "QtWarningMsg" -> "warning"
      [] mode = "QtCriticalMsg" -> "error"
      [] mode = "QtFatalMsg" -> "critical"

\* qt_message_handler(mode, context, msg): the logger call it makes
qt_message_handler(mode, ctx, msg) ==
    Call(QtMethod(mode), msg, <<>>, QtExtra(ctx), FALSE, "qt")

(***************************************************************************)
(* Inputs.                                                                 *)
(***************************************************************************)
Messages ==
    { [msg |-> <<"a">>, args |-> <<>>],
      [msg |-> <<"v=", "%s">>, args |-> <<PyStr(<<"x">>)>>],
      [msg |-> <<"n=", "%d">>, args |-> <<PyInt(7)>>],
      [msg |-> <<"n=", "%d">>, args |-> <<PyStr(<<"x">>)>>],  \* TypeError in getMessage
      [msg |-> <<"p", "%d">>, args |-> <<>>],                \* no args: left as it is
      [msg |-> <<"s", SUR>>, args |-> <<>>],                 \* UnicodeEncodeError on write
      [msg |-> <<BIG>>, args |-> <<>>] }

Covers ==
    { PyDict(<< <<PyStr(<<"filename">>), PyStr(<<"test.txt">>)>>,
                <<PyStr(<<"lineno">>), PyInt(999)>> >>),
      PyDict(<< <<PyStr(<<"category">>), PyStr(<<"c">>)>>,
                <<PyStr(<<"funcName">>), PyStr(<<"FN">>)>> >>),
      PyDict(<< <<PyStr(<<"lineno">>), PyObj>> >>),           \* json.dump cannot write it
      PyDict(<< <<PyStr(<<"funcName">>), PyStr(<<"FN">>)>>,
                <<PyStr(<<"__class__">>), PyInt(3)>> >>),     \* setattr raises
      PyDict(<< <<PyInt(5), PyInt(1)>> >>),                   \* hasattr raises
      PyDict(<<>>),
      PyInt(5) }                                               \* not a dict

AppCalls ==
    {Call(m, <<"a">>, <<>>, NoExtra, FALSE, "app") : m \in LevelMethods}
    \cup {Call(m, <<"v=", "%s">>, <<PyStr(<<"x">>)>>, NoExtra, FALSE, "app") : m \in LevelMethods}
    \cup {Call("error", x.msg, x.args, NoExtra, FALSE, "app") : x \in Messages}
    \cup {Call("debug", <<"a">>, <<>>, Extra(cv), FALSE, "app") : cv \in Covers}
    \cup {Call("error", <<"a">>, <<>>, NoExtra, TRUE, "app")}

QtContexts ==
    LET files == {<<>>, <<"ui", "/", "Main.qml">>}
        funcs == {<<>>, <<"onClicked">>}
        full == {[file |-> PyStr(f), function |-> PyStr(g), line |-> PyInt(12),
                  category |-> PyStr(<<"qml">>), version |-> PyInt(2)] :
                 f \in files, g \in funcs}
    IN  full \cup {[line |-> PyInt(12)], [file |-> PyStr(<<"a.qml">>)],
                   [function |-> PyStr(<<>>)]}

QtInputs ==
    {[mode |-> m, ctx |-> [function |-> PyStr(<<>>)]] : m \in QtMsgTypes}
    \cup {[mode |-> "QtFatalMsg", ctx |-> x] : x \in QtContexts}

(***************************************************************************)
(* The single-threaded logging system: the state after the module is       *)
(* imported (logger = _LogManager.create_logger("Umi-OCR")), and the       *)
(* operations on it.                                                       *)
(***************************************************************************)
InitThreads ==
    /\ pc = [t \in 1..NThreads |-> "idle"]
    /\ lockOwner = 0
    /\ sent = [t \in 1..NThreads |-> 0]

InitTxt ==
    /\ outFile = <<>>
    /\ ingoreBlank = FALSE
    /\ printed = <<>>

InitLog ==
    /\ filters = create_logger(0, <<>>).filters
    /\ handlers = create_logger(0, <<>>).handlers
    /\ created = 1
    /\ jsonFile = <<>>
    /\ backups = <<>>
    /\ stderr = <<>>
    /\ handleErrors = <<>>
    /\ opens = <<>>
    /\ calls = <<>>
    /\ filtered = <<>>
    /\ qtCalls = <<>>

Init == InitLog /\ InitThreads /\ InitTxt

\* Application code calls a level method of the logger
Emit ==
    \E c \in AppCalls :
        /\ TopCalls(calls) < MaxEmits
        /\ Commit(Logger_log(LogState, c, filters, handlers))
        /\ UNCHANGED <<filters, handlers, backups, qtCalls, created, thrVars, txtVars>>

\* Qt delivers a message to the callback
QtMessage ==
    \E x \in QtInputs :
        /\ TopCalls(calls) < MaxEmits
        /\ Commit(Logger_log(LogState, qt_message_handler(x.mode, x.ctx, <<"q">>),
                             filters, handlers))
        /\ qtCalls' = Append(qtCalls, [mode |-> x.mode, ctx |-> x.ctx,
                                       first |-> Len(calls) + 1, last |-> Len(calls')])
        /\ UNCHANGED <<filters, handlers, backups, created, thrVars, txtVars>>

\* _LogManager.create_logger("Umi-OCR") is called again
CreateLogger ==
    /\ created < 1 + MaxCreates
    /\ created' = created + 1
    /\ filters' = create_logger(filters, handlers).filters
    /\ handlers' = create_logger(filters, handlers).handlers
    /\ UNCHANGED <<jsonFile, backups, stderr, handleErrors, opens, calls, filtered,
                   qtCalls, thrVars, txtVars>>

Next == Emit \/ QtMessage

Spec == Init /\ [][Next]_vars

NextCreate == CreateLogger \/ Emit

SpecCreate == Init /\ [][NextCreate]_vars

(***************************************************************************)
(* Reading the outputs.                                                    *)
(***************************************************************************)
\* The file as a JSON-lines reader sees it: the pieces between newlines
RECURSIVE SplitLines(_, _)
SplitLines(pieces, cur) ==
    IF pieces = <<>> THEN (IF cur = <<>> THEN <<>> ELSE <<cur>>)
    ELSE IF Head(pieces).p = "nl" THEN <<cur>> \o SplitLines(Tail(pieces), <<>>)
    ELSE SplitLines(Tail(pieces), Append(cur, Head(pieces)))

JsonLines == SplitLines(jsonFile, <<>>)

\* A line that parses as one JSON object
WellFormed(line) == Len(line) = 1 /\ line[1].p = "object"

\* The well-formed lines that hold the record of call i
LinesOf(i) ==
    {k \in 1..Len(JsonLines) : WellFormed(JsonLines[k]) /\ JsonLines[k][1].call = i}

\* The value of a key of a JSON object
Item(obj, key) ==
    LET k == CHOOSE k \in 1..Len(obj.items) : obj.items[k][1] = key IN obj.items[k][2]

\* Pieces of the file, and console lines, that call i produced
PiecesOf(i) == {k \in 1..Len(jsonFile) : jsonFile[k].p # "nl" /\ jsonFile[k].call = i}
ConsoleLinesOf(i) == {k \in 1..Len(stderr) : stderr[k].call = i}

\* handleError calls of JSON handlers for call i
JsonErrorsOf(i) ==
    {k \in 1..Len(handleErrors) :
        handleErrors[k].call = i /\ handlers[handleErrors[k].handler] = "json"}

\* A lower bound of the file's size in bytes: BIG counts 6 MiB, any other token 1
TokenBytes(tok) == IF tok = BIG THEN 6 * 1048576 ELSE 1

RECURSIVE SumBytes(_)
SumBytes(toks) == IF toks = <<>> THEN 0 ELSE TokenBytes(Head(toks)) + SumBytes(Tail(toks))

RECURSIVE ItemsBytes(_)
ItemsBytes(items) ==
    IF items = <<>> THEN 0
    ELSE (IF Head(items)[2].j = "string" THEN SumBytes(Head(items)[2].s) ELSE 1)
         + ItemsBytes(Tail(items))

RECURSIVE FileBytes(_)
FileBytes(pieces) ==
    IF pieces = <<>> THEN 0
    ELSE (IF Head(pieces).p = "nl" THEN 1 ELSE ItemsBytes(Head(pieces).items))
         + FileBytes(Tail(pieces))

\* What the caller of a level method expects to read back
ExpectedLevel(method) ==
    CASE method = "debug" -> "DEBUG"
      [] method = "info" -> "INFO"
      [] method = "warning" -> "WARNING"
      [] method = "error" -> "ERROR"
      [] method = "critical" -> "CRITICAL"

\* The message with its placeholders substituted, for the messages of the model
ExpectedText(c) ==
    CASE c.msg = <<"v=", "%s">> -> "v=x"
      [] c.msg = <<"n=", "%d">> -> "n=7"
      [] c.msg = <<"p", "%d">> -> "p%d"
      [] OTHER -> Flatten(c.msg)

\* The message can be formatted; the whole record can be written as UTF-8 JSON
Formats(c) == ~(c.msg = <<"n=", "%d">> /\ c.args # <<PyInt(7)>>)
Writable(c) == Formats(c) /\ c.msg # <<"s", SUR>>

\* An override map: its keys, and the value a key ends up with
HasKey(items, a) ==
    \E k \in 1..Len(items) : items[k][1].t = "str" /\ Flatten(items[k][1].s) = a
CoverValue(items, a) ==
    LET k == CHOOSE k \in 1..Len(items) :
                /\ items[k][1].t = "str" /\ Flatten(items[k][1].s) = a
                /\ \A m \in (k + 1)..Len(items) :
                      ~(items[m][1].t = "str" /\ Flatten(items[m][1].s) = a)
    IN  items[k][2]

(***************************************************************************)
(* Claims about the JSON file handler.                                     *)
(***************************************************************************)
\* C1: the target file never grows past maxBytes (10 MiB): a write that would
\* exceed it rolls the file into a backup generation first, and at most
\* backupCount (3) backups are kept.
C1_RotationKeepsFileWithinMaxBytes ==
    /\ FileBytes(jsonFile) <= maxBytes
    /\ Len(backups) <= backupCount

\* C4: a failure of one record in emit costs that record only: every record
\* that reached the JSON handler either was reported through handleError or
\* is one well-formed line of the file, and a reported record is never handed
\* to the logger again.
C4_OnlyTheFailingRecordIsLost ==
    \A i \in 1..Len(calls) :
        filtered[i].pass =>
            /\ (JsonErrorsOf(i) = {}) => Cardinality(LinesOf(i)) = 1
            /\ (JsonErrorsOf(i) # {} /\ i < Len(calls)) => calls[i + 1].at # "filter"

\* C10: when converting the record to its dictionary fails, handleError runs
\* exactly once for the record and emit does not open the log file for it.
C10_ConversionFailureDropsRecord ==
    \A i \in 1..Len(calls) :
        (filtered[i].pass /\ ~record_to_dict(filtered[i].rec).ok) =>
            /\ Cardinality(JsonErrorsOf(i)) = 1
            /\ \A k \in 1..Len(opens) : opens[k] # i

\* C7: every record emitted without an override map (and able to be written)
\* is exactly one line of the file, with "level" the level's name and
\* "message" the resolved message; the lines are in the order of the calls.
C7_RoundTrip ==
    /\ \A i \in 1..Len(calls) :
          (~calls[i].extra.has /\ Writable(calls[i])) =>
              /\ Cardinality(LinesOf(i)) = 1
              /\ \A k \in LinesOf(i) :
                    /\ Item(JsonLines[k][1], "level") =
                          [j |-> "string", s |-> <<ExpectedLevel(calls[i].method)>>]
                    /\ Item(JsonLines[k][1], "message").j = "string"
                    /\ Flatten(Item(JsonLines[k][1], "message").s) = ExpectedText(calls[i])
    /\ \A i, m \in 1..Len(calls) :
          \A k \in LinesOf(i), n \in LinesOf(m) : i < m => k < n

(***************************************************************************)
(* Claims about _CoverFilter.                                              *)
(***************************************************************************)
\* The calls that carry an override map (a dict) under "cover"
WithCover == {i \in 1..Len(calls) : calls[i].extra.has /\ calls[i].extra.cover.t = "dict"}

\* What the claim promises for call i: the filter returned true, the record
\* has the attributes it had, each one named by a key holds the key's value
\* and every other one is as makeRecord left it.
CoverApplied(i) ==
    LET before == makeRecord(calls[i])
        after == filtered[i].rec
        items == calls[i].extra.cover.items
    IN  /\ filtered[i].pass
        /\ DOMAIN after = DOMAIN before
        /\ \A a \in DOMAIN before :
              after[a] = IF HasKey(items, a) THEN CoverValue(items, a) ELSE before[a]

\* Every key is a string and none names an attribute that rejects assignment
AppliesCleanly(i) ==
    LET items == calls[i].extra.cover.items IN
    \A k \in 1..Len(items) :
        /\ items[k][1].t = "str"
        /\ Flatten(items[k][1].s) # "__class__"

\* C5 as stated: for every record and every override map, the attributes named
\* by keys take the keys' values, all others are unchanged, keys that name no
\* attribute create none, and the filter returns true.
C5_EveryCoverApplied == \A i \in WithCover : CoverApplied(i)

\* C5 amended: the same, for the override maps whose keys are all strings and
\* name no attribute that rejects assignment.
C5_CleanCoverApplied == \A i \in WithCover : AppliesCleanly(i) => CoverApplied(i)

\* C5 witness: a map with an unknown key and a known key went through the filter
C5_Witness ==
    \E i \in WithCover :
        /\ HasKey(calls[i].extra.cover.items, "category")
        /\ HasKey(calls[i].extra.cover.items, "funcName")
        /\ filtered[i].pass
        /\ filtered[i].rec["funcName"] = PyStr(<<"FN">>)

\* C6: when applying the override map fails, the record reaches neither
\* handler; exactly one ERROR record with exception and stack information and
\* no override map is logged through the logger right after it, passes the
\* filter and is delivered to the console and to the JSON handler; nothing else
\* is logged for it, and later records are filtered and printed as usual.
C6_FilterFailure ==
    /\ \A i \in 1..Len(calls) :
          ~filtered[i].pass =>
              /\ ConsoleLinesOf(i) = {} /\ PiecesOf(i) = {}
              /\ \A k \in 1..Len(opens) : opens[k] # i
              /\ i < Len(calls)
              /\ calls[i + 1].at = "filter"
              /\ calls[i + 1].method = "error"
              /\ calls[i + 1].exc_info /\ calls[i + 1].stack_info
              /\ ~calls[i + 1].extra.has
              /\ filtered[i + 1].pass
              /\ Cardinality(ConsoleLinesOf(i + 1)) = 1
              /\ \A k \in ConsoleLinesOf(i + 1) :
                    stderr[k].symbol = "U+00D7" /\ stderr[k].exc /\ stderr[k].stack
              /\ Cardinality(PiecesOf(i + 1)) = 1
              /\ \A k \in PiecesOf(i + 1) :
                    /\ jsonFile[k].p = "object"
                    /\ Item(jsonFile[k], "level") = [j |-> "string", s |-> <<"ERROR">>]
                    /\ Item(jsonFile[k], "exc_text").j = "string"
                    /\ Item(jsonFile[k], "stack_info").j = "string"
    /\ \A i \in 1..Len(calls) :
          calls[i].at = "filter" => (i > 1 /\ ~filtered[i - 1].pass)
    /\ \A i \in 1..Len(calls) :
          (filtered[i].pass /\ Formats(calls[i])) => Cardinality(ConsoleLinesOf(i)) = 1

\* C6 witness: a record failed in the filter and a later record was printed
C6_Witness ==
    \E i \in 1..Len(calls) :
        /\ ~filtered[i].pass
        /\ i + 2 <= Len(calls)
        /\ filtered[i + 2].pass
        /\ ConsoleLinesOf(i + 2) # {}

(***************************************************************************)
(* Claims about the Qt message callback.                                   *)
(***************************************************************************)
\* The logger severity the claim gives for a Qt message type
QtSeverity(mode) ==
    CASE mode = "QtDebugMsg" -> "DEBUG"
      [] mode = "QtInfoMsg" -> "INFO"
      [] mode = "QtWarningMsg" -> "WARNING"
      [] mode = "QtCriticalMsg" -> "ERROR"
      [] mode = "QtFatalMsg" -> "CRITICAL"

EmptyFunction(ctx) == "function" \in DOMAIN ctx /\ ctx["function"] = PyStr(<<>>)

Threads == 1..NThreads

\* logger.info(msg): the record passes the filter and the console handler,
\* and the thread arrives at the JSON handler's handle()
ThreadLog(t) ==
    /\ pc[t] = "idle"
    /\ sent[t] < MRecords
    /\ pc' = [pc EXCEPT ![t] = "acquire"]
    /\ UNCHANGED <<lockOwner, sent, logVars, txtVars>>

\* Mutant of Acquire: emit is entered without waiting for the lock
Acquire_NoLock(t) ==
    /\ pc[t] = "acquire"
    /\ lockOwner' = t
    /\ pc' = [pc EXCEPT ![t] = "open"]
    /\ UNCHANGED <<sent, logVars, txtVars>>

\* Handler.handle: self.acquire()
Acquire(t) ==
    /\ pc[t] = "acquire"
    /\ lockOwner = 0
    /\ lockOwner' = t
    /\ pc' = [pc EXCEPT ![t] = "open"]
    /\ UNCHANGED <<sent, logVars, txtVars>>

\* emit: log_dict = self._record_to_dict(record); open(self.baseFilename, "a")
OpenFile(t) ==
    /\ pc[t] = "open"
    /\ pc' = [pc EXCEPT ![t] = "dump"]
    /\ opens' = Append(opens, <<t, sent[t] + 1>>)
    /\ UNCHANGED <<lockOwner, sent, filters, handlers, jsonFile, backups, stderr,
                   handleErrors, calls, filtered, qtCalls, created, txtVars>>

\* json.dump(log_dict, f): the first chunks, then the remaining ones
Dump(t) ==
    /\ pc[t] \in {"dump", "dump2"}
    /\ jsonFile' = Append(jsonFile, [p |-> IF pc[t] = "dump" THEN "head" ELSE "tail",
                                     call |-> <<t, sent[t] + 1>>])
    /\ pc' = [pc EXCEPT ![t] = IF pc[t] = "dump" THEN "dump2" ELSE "newline"]
    /\ UNCHANGED <<lockOwner, sent, filters, handlers, backups, stderr, handleErrors,
                   opens, calls, filtered, qtCalls, created, txtVars>>

\* f.write(NL), and the with block closes f
WriteNewline(t) ==
    /\ pc[t] = "newline"
    /\ jsonFile' = Append(jsonFile, [p |-> "nl"])
    /\ pc' = [pc EXCEPT ![t] = "release"]
    /\ UNCHANGED <<lockOwner, sent, filters, handlers, backups, stderr, handleErrors,
                   opens, calls, filtered, qtCalls, created, txtVars>>

\* Handler.handle: self.release(); logger.info returns
Release(t) ==
    /\ pc[t] = "release"
    /\ lockOwner' = IF lockOwner = t THEN 0 ELSE lockOwner
    /\ sent' = [sent EXCEPT ![t] = @ + 1]
    /\ pc' = [pc EXCEPT ![t] = "idle"]
    /\ UNCHANGED <<logVars, txtVars>>

NextConc ==
    \E t \in Threads :
        \/ ThreadLog(t)
        \/ Acquire(t)
        \/ OpenFile(t)
        \/ Dump(t)
        \/ WriteNewline(t)
        \/ Release(t)

SpecConc == Init /\ [][NextConc]_vars

\* A line that is the two halves of one record's object
WholeRecord(line) ==
    /\ Len(line) = 2
    /\ line[1].p = "head" /\ line[2].p = "tail"
    /\ line[1].call = line[2].call

\* The newline-terminated lines of the file
FinishedLines ==
    IF jsonFile # <<>> /\ jsonFile[Len(jsonFile)].p = "nl"
    THEN JsonLines
    ELSE SubSeq(JsonLines, 1, Len(JsonLines) - 1)

AllSent == \A t \in Threads : sent[t] = MRecords /\ pc[t] = "idle"

\* C3: under every interleaving, every finished line is one whole record, every
\* record a thread has emitted is on exactly one line, and when the N threads
\* have emitted their M records the file holds exactly N x M lines.
C3_ConcurrentLines ==
    /\ \A k \in 1..Len(FinishedLines) : WholeRecord(FinishedLines[k])
    /\ \A t \in Threads : \A n \in 1..sent[t] :
          Cardinality({k \in 1..Len(FinishedLines) :
                          FinishedLines[k][1].call = <<t, n>>}) = 1
    /\ AllSent => Len(JsonLines) = NThreads * MRecords

\* C3 witness: all records are written, and a record of thread 2 lies between
\* two records of thread 1
C3_Witness ==
    /\ AllSent
    /\ Len(JsonLines) = NThreads * MRecords
    /\ \E a, b, c \in 1..Len(JsonLines) :
          /\ a < b /\ b < c
          /\ JsonLines[a][1].call[1] = 1
          /\ JsonLines[b][1].call[1] = 2
          /\ JsonLines[c][1].call[1] = 1

(***************************************************************************)
(* OutputTxt: the plain text writer.  A text is a sequence of tokens, NL   *)
(* being the newline character.                                            *)
(***************************************************************************)
NL == "\n"

startDatetime == "2023-01-01 12:00:00"

\* __init__: open(outputPath, "w") and write f'{startDatetime}NLNL'
OutputTxt_init == <<startDatetime, NL, NL>>

\* for r in res["data"]: textOut += r["text"] + NL
RECURSIVE DataText(_)
DataText(data) ==
    IF data = <<>> THEN <<>> ELSE <<Head(data).text, NL>> \o DataText(Tail(data))

\* Mutant of textOut: the closing blank line is forgotten
textOut_NoBlankLine(res) ==
    <<"U+2266 " \o res.fileName \o " U+2267", NL>>
    \o (IF res.code = 100 THEN DataText(res.data.items)
        ELSE IF res.code = 101
             THEN <<"[Notice] No Text. ", NL, "U+3010 notice U+3011", NL>>
             ELSE <<"[Error] OCR failed. Code: " \o ToString(res.code) \o ", Msg: " \o res.data.s,
                    NL, "U+3010 error U+3011", NL>>)

\* print: the text built for a result that is not ignored
textOut(res) ==
    <<"U+2266 " \o res.fileName \o " U+2267", NL>>
    \o (IF res.code = 100 THEN DataText(res.data.items)
        ELSE IF res.code = 101
             THEN <<"[Notice] No Text. ", NL, "U+3010 notice U+3011", NL>>
             ELSE <<"[Error] OCR failed. Code: " \o ToString(res.code) \o ", Msg: " \o res.data.s,
                    NL, "U+3010 error U+3011", NL>>)
    \o <<NL>>

\* print(res): return at once for a result other than success when ingoreBlank
\* is set, else append the text to the file
OutputTxt_print(file, blank, res) ==
    IF ~(res.code = 100) /\ blank THEN file ELSE file \o textOut(res)

Fragments == {<<>>, <<[text |-> "x"]>>, <<[text |-> "x"], [text |-> "y"]>>,
              <<[text |-> "y"], [text |-> ""], [text |-> "x"]>>}

Results ==
    {[code |-> 100, fileName |-> f, data |-> [t |-> "list", items |-> d]] :
        f \in {"a.png", "b.png"}, d \in Fragments}
    \cup {[code |-> 101, fileName |-> f, data |-> [t |-> "str", s |-> ""]] : f \in {"a.png", "b.png"}}
    \cup {[code |-> 102, fileName |-> "a.png", data |-> [t |-> "str", s |-> "timeout"]]}

\* The state after OutputTxt(argd) is constructed
InitOutput ==
    /\ outFile = OutputTxt_init
    /\ ingoreBlank \in BOOLEAN
    /\ printed = <<>>

InitTxtSpec == InitLog /\ InitThreads /\ InitOutput

\* OutputTxt.print(res)
PrintResult ==
    \E res \in Results :
        /\ Len(printed) < MaxPrints
        /\ outFile' = OutputTxt_print(outFile, ingoreBlank, res)
        /\ printed' = Append(printed, res)
        /\ UNCHANGED <<ingoreBlank, logVars, thrVars>>

SpecTxt == InitTxtSpec /\ [][PrintResult]_vars

\* The lines of a text: the runs of characters each newline ends
RECURSIVE TextLines(_, _)
TextLines(text, cur) ==
    IF text = <<>> THEN (IF cur = "" THEN <<>> ELSE <<cur \o "<no newline>">>)
    ELSE IF Head(text) = NL THEN <<cur>> \o TextLines(Tail(text), "")
    ELSE TextLines(Tail(text), cur \o Head(text))

\* The lines the claim gives a result: none when it is suppressed; for code
\* 100 a title line, every fragment on its own line in order, one blank line
RECURSIVE FragmentLines(_)
FragmentLines(data) ==
    IF data = <<>> THEN <<>> ELSE <<Head(data).text>> \o FragmentLines(Tail(data))

Suppressed(res) == res.code # 100 /\ ingoreBlank

\* Number of lines of the block of a result that is written
BlockLength(res) == IF res.code = 100 THEN Len(res.data.items) + 2 ELSE 4

\* The line after which the block of the n-th result starts
RECURSIVE BlockStart(_)
BlockStart(n) ==
    IF n = 1 THEN 2
    ELSE BlockStart(n - 1)
         + (IF Suppressed(printed[n - 1]) THEN 0 ELSE BlockLength(printed[n - 1]))

\* C9: the file is the start-datetime header followed, in call order, by the
\* blocks of the results that are not suppressed; a result other than success
\* adds nothing when ingoreBlank is set; the block of a success holds, after
\* its title line, every fragment on its own line in order, then one blank line.
C9_TextBlocks ==
    LET lines == TextLines(outFile, "")
        n == Len(printed)
    IN  /\ Len(lines) >= 2 /\ lines[1] = startDatetime /\ lines[2] = ""
        /\ Len(lines) = BlockStart(n + 1)
        /\ \A k \in 1..n :
              LET res == printed[k]
                  at == BlockStart(k)
              IN  (~Suppressed(res) /\ res.code = 100) =>
                      /\ SubSeq(lines, at + 2, at + 1 + Len(res.data.items)) =
                            FragmentLines(res.data.items)
                      /\ lines[at + BlockLength(res)] = ""

\* C9 witness: with ingoreBlank set, a "no text" result was printed, then a
\* success with two fragments, and the file holds only the latter's block
C9_Witness ==
    /\ ingoreBlank
    /\ Len(printed) = 2
    /\ printed[1].code = 101
    /\ printed[2].code = 100 /\ Len(printed[2].data.items) = 2
    /\ Len(TextLines(outFile, "")) = 6

(***************************************************************************)
(* Claim about _LogManager.create_logger.                                  *)
(***************************************************************************)
\* C2: however often create_logger was called with the one name, output is not
\* doubled: every record that passes the filter and can be formatted and
\* written produces exactly one console line and exactly one JSON line.
C2_NoDoubledOutput ==
    \A i \in 1..Len(calls) :
        (filtered[i].pass /\ Writable(calls[i])) =>
            /\ Cardinality(ConsoleLinesOf(i)) = 1
            /\ Cardinality(PiecesOf(i)) = 1
====
